---- MODULE Spec2Model ----
(***************************************************************************)
(* Model of ansible_runner/main.py: the main menu loop and the two run     *)
(* entry points run_ansible_playbook and run_custom_command, with the      *)
(* inventory parser get_hosts_from_inventory and the reachability prober   *)
(* check_ssh_connectivity they call.                                       *)
(*                                                                         *)
(* Python strings are sequences of one-character strings, so that strip(), *)
(* lower(), startswith(), the substring test and re.split() are computed   *)
(* rather than assumed.                                                    *)
(***************************************************************************)
EXTENDS Integers, Sequences, FiniteSets, TLC

\* ------------------------------------------------------------------ bounds
\* Longest inventory file text, in characters, of the parser specification.
MaxChars == 6
\* Longest inventory directory name of the risk-classification specification.
MaxNameLen == 5
\* Runs of run_ansible_playbook / run_custom_command per session of main().
MaxRuns == 2

\* --------------------------------------------------------- Python strings
\* str.isspace() on the characters the model uses.
IsSpace(c) == c \in {" ", "\t", "\n", "\r"}

\* str.lower() on one character.
LowerChar(c) ==
    CASE c = "P" -> "p"
      [] c = "R" -> "r"
      [] c = "O" -> "o"
      [] c = "D" -> "d"
      [] c = "Y" -> "y"
      [] c = "N" -> "n"
      [] OTHER -> c

\* str.lower()
lower(s) == [i \in 1..Len(s) |-> LowerChar(s[i])]

RECURSIVE lstrip(_)
lstrip(s) ==
    IF s = <<>> THEN s
    ELSE IF IsSpace(Head(s)) THEN lstrip(Tail(s)) ELSE s

RECURSIVE rstrip(_)
rstrip(s) ==
    IF s = <<>> THEN s
    ELSE IF IsSpace(s[Len(s)]) THEN rstrip(SubSeq(s, 1, Len(s) - 1)) ELSE s

\* str.strip()
strip(s) == rstrip(lstrip(s))

\* str.startswith(c) for a one-character prefix
startswith(s, c) == Len(s) >= 1 /\ s[1] = c

\* sub in s
contains(sub, s) ==
    \E i \in 1..(Len(s) - Len(sub) + 1) : SubSeq(s, i, i + Len(sub) - 1) = sub

\* re.split(r"\s+", line)[0]: the text before the first run of whitespace.
RECURSIVE re_split_first(_)
re_split_first(line) ==
    IF line = <<>> THEN <<>>
    ELSE IF IsSpace(Head(line)) THEN <<>>
    ELSE <<Head(line)>> \o re_split_first(Tail(line))

\* Iterating a text file: the lines, each with its "\n" terminator kept; a
\* last line without terminator is a line too, and an empty file has none.
RECURSIVE file_lines(_)
file_lines(text) ==
    IF text = <<>> THEN <<>>
    ELSE LET nl == {i \in 1..Len(text) : text[i] = "\n"}
         IN  IF nl = {} THEN <<text>>
             ELSE LET k == CHOOSE i \in nl : \A j \in nl : i <= j
                  IN  <<SubSeq(text, 1, k)>>
                          \o file_lines(SubSeq(text, k + 1, Len(text)))

\* ------------------------------------------------- get_hosts_from_inventory
\* Variant: the line is tested and split as read, without strip().
hosts_of_line_unstripped(raw) ==
    IF raw # <<>> /\ ~startswith(raw, "[") /\ ~startswith(raw, "#")
    THEN <<re_split_first(raw)>>
    ELSE <<>>

\* The body of the for loop: the hosts one line appends.
hosts_of_line(raw) ==
    LET line == strip(raw)
    IN  IF line # <<>> /\ ~startswith(line, "[") /\ ~startswith(line, "#")
        THEN <<re_split_first(line)>>
        ELSE <<>>

RECURSIVE hosts_of_lines(_)
hosts_of_lines(lines) ==
    IF lines = <<>> THEN <<>>
    ELSE hosts_of_line(Head(lines)) \o hosts_of_lines(Tail(lines))

\* A file of the inventory path: it exists or not, and has a text.
NoFile == [exists |-> FALSE, text |-> <<>>]
FileOf(text) == [exists |-> TRUE, text |-> text]

\* The value get_hosts_from_inventory returns: FileNotFoundError is caught,
\* a message is printed, and the (empty) list is returned all the same.
get_hosts_from_inventory(f) ==
    IF f.exists THEN hosts_of_lines(file_lines(f.text)) ELSE <<>>

\* --------------------------------------------------------------- inputs
\* Names of the directories list_inventories() returns.
Inventories ==
    { <<"p","r","o","d">>,
      <<"P","R","O","D","-","e","u">>,
      <<"-","P","r","o","d">>,
      <<"p","r","o","-","d">>,
      <<"d","e","v">> }

\* Inventory files the session's runs may find at the inventory path.
SampleFiles ==
    { NoFile,
      FileOf(<<>>),
      FileOf(<<"a","\n">>),
      FileOf(<<"a","\n","b","\n">>),
      FileOf(<<"a","\n","a">>),
      FileOf(<<"a","\n","b","\n","a","\n">>),
      FileOf(<<"#","a","\n","[","b","]","\n"," ","b"," ","a","\n">>) }

\* Exit statuses of the ssh probe: 0, a remote status, ssh's own error 255.
ReturnCodes == {0, 1, 255}

\* Lines the operator may type at a prompt; input() drops the newline only.
Answers ==
    { <<>>,
      <<"y">>, <<"Y">>, <<" ","y"," ">>, <<"n">>, <<"y","e","s">>,
      <<"P","R","O","D">>, <<"p","r","o","d">>, <<"P","r","o","d">>,
      <<"P","R","O","D"," ">> }

\* What subprocess.run(cmd) of the automation command does: it returns with
\* an exit status, or raises because the executable cannot be spawned.
DispatchResults == {"exit_zero", "exit_nonzero", "spawn_failed"}

Entries == {"playbook", "custom"}

\* The playbook name typed at the menu, and a saved custom command's words.
PlaybookArg == <<"site.yml">>
CommandArg == <<"ansible", "all", "-m", "ping">>

\* The characters of the parser specification's file texts.
FileChars == {"\n", " ", "#", "[", "a", "b"}

\* The characters of the risk specification's inventory names.
NameChars == {"p", "r", "o", "d", "P", "R", "O", "D", "-"}

\* ---------------------------------------------------------------- state
VARIABLES
    pc,         \* where the session is: the menu, or a line of the running function
    entry,      \* the running function: "playbook" or "custom"
    inventory,  \* its inventory argument
    arg,        \* its playbook / command argument
    file,       \* the file found at inventory_path when it was opened
    hosts,      \* hosts, as get_hosts_from_inventory returned it
    failed,     \* failed_hosts / failed
    rcs,        \* result.returncode of each ssh probe of this run, in order
    cont,       \* cont
    confirm,    \* confirm
    stdin,      \* the lines input() returned in this run, in order
    io,         \* the run's externally visible events, in order
    cmd,        \* the command handed to subprocess.run, once dispatched
    result,     \* what that subprocess.run did
    auditLog,   \* the records written to an audit log
    attempts,   \* calls of the two entry points in this session
    prev        \* the previous run, kept by the replay specification

vars == <<pc, entry, inventory, arg, file, hosts, failed, rcs, cont, confirm,
          stdin, io, cmd, result, auditLog, attempts, prev>>

NoCmd == [head |-> <<>>, inventory |-> <<>>, tail |-> <<>>]
NoPrev == [set |-> FALSE, entry |-> "none", io |-> <<>>, cmd |-> NoCmd,
           file |-> NoFile, rcs |-> <<>>, stdin |-> <<>>, result |-> "none"]

\* An externally visible event: a file opened, a process run, a line printed
\* or a prompt shown; an ssh probe names its target host.
Ev(name) == [ev |-> name, host |-> <<>>]
SshEv(h) == [ev |-> "ssh", host |-> h]

\* A line input() returned, with the prompt it answered.
Typed(prompt, a) == [prompt |-> prompt, line |-> a]

\* The locals of a run before its first step.
FreshRun ==
    /\ file = NoFile
    /\ hosts = <<>>
    /\ failed = <<>>
    /\ rcs = <<>>
    /\ cont = <<>>
    /\ confirm = <<>>
    /\ stdin = <<>>
    /\ io = <<>>
    /\ cmd = NoCmd
    /\ result = "none"

Init ==
    /\ pc = "menu"
    /\ entry = "none"
    /\ inventory = <<>>
    /\ arg = <<>>
    /\ FreshRun
    /\ auditLog = <<>>
    /\ attempts = 0
    /\ prev = NoPrev

\* ------------------------------------------------------------------ main
\* main(), choices "1" and "2": an inventory is selected and the entry point
\* is called with it.
MainMenu(e, inv) ==
    /\ pc = "menu"
    /\ attempts < MaxRuns
    /\ pc' = "parse"
    /\ entry' = e
    /\ inventory' = inv
    /\ arg' = IF e = "playbook" THEN PlaybookArg ELSE CommandArg
    /\ file' = NoFile
    /\ hosts' = <<>>
    /\ failed' = <<>>
    /\ rcs' = <<>>
    /\ cont' = <<>>
    /\ confirm' = <<>>
    /\ stdin' = <<>>
    /\ io' = <<>>
    /\ cmd' = NoCmd
    /\ result' = "none"
    /\ attempts' = attempts + 1
    /\ UNCHANGED <<auditLog, prev>>

\* main(), choice "4": sys.exit(0).
MainExit ==
    /\ pc = "menu"
    /\ pc' = "exited"
    /\ UNCHANGED <<entry, inventory, arg, file, hosts, failed, rcs, cont,
                   confirm, stdin, io, cmd, result, auditLog, attempts, prev>>

\* ------------------------------------------------- check_ssh_connectivity
\* One iteration of the for loop: ssh is run for the next host and the host
\* is appended to failed_hosts when its return code is not 0. Every failure
\* of a probe (timeout, refusal, authentication, name resolution) is a
\* non-zero return code of ssh; an ssh executable that cannot be started at
\* all is outside this model.
check_ssh_connectivity_probe(rc) ==
    /\ pc = "probe"
    /\ Len(rcs) < Len(hosts)
    /\ rcs' = Append(rcs, rc)
    /\ failed' = IF rc # 0 THEN Append(failed, hosts[Len(rcs) + 1]) ELSE failed
    /\ io' = Append(io, SshEv(hosts[Len(rcs) + 1]))
    /\ UNCHANGED <<pc, entry, inventory, arg, file, hosts, cont, confirm,
                   stdin, cmd, result, auditLog, attempts, prev>>

\* Variant: the loop is left at the first failed probe.
check_ssh_connectivity_return_early ==
    /\ pc = "probe"
    /\ (Len(rcs) = Len(hosts) \/ failed # <<>>)
    /\ pc' = "check_failed"
    /\ UNCHANGED <<entry, inventory, arg, file, hosts, failed, rcs, cont,
                   confirm, stdin, io, cmd, result, auditLog, attempts, prev>>

\* The loop is exhausted: return failed_hosts.
check_ssh_connectivity_return ==
    /\ pc = "probe"
    /\ Len(rcs) = Len(hosts)
    /\ pc' = "check_failed"
    /\ UNCHANGED <<entry, inventory, arg, file, hosts, failed, rcs, cont,
                   confirm, stdin, io, cmd, result, auditLog, attempts, prev>>


\* ---------------------------------------------------- run_ansible_playbook
\* cont = input(...).strip().lower()
PB_read_cont(a) == lower(strip(a))

\* Variant: only an explicit "n" aborts.
PB_cont_abort_default_yes(c) == c = <<"n">>

\* if cont != "y"
PB_cont_abort(c) == c # <<"y">>

\* Variant: the name is not lower-cased before the test.
PB_is_prod_case_sensitive(inv) == contains(<<"p","r","o","d">>, inv)

\* if "prod" in inventory.lower()
PB_is_prod(inv) == contains(<<"p","r","o","d">>, lower(inv))

\* Variant: the typed token is stripped before the comparison.
PB_confirm_abort_stripped(c) == strip(c) # <<"P","R","O","D">>

\* if confirm != "PROD"
PB_confirm_abort(c) == c # <<"P","R","O","D">>

\* cmd = ...
PB_cmd(inv, a) == [head |-> <<"ansible-playbook", "-i">>, inventory |-> inv, tail |-> a]

\* hosts = get_hosts_from_inventory(inventory_path), and the call of
\* check_ssh_connectivity(hosts, ...).
PB_Parse(f) ==
    /\ pc = "parse"
    /\ entry = "playbook"
    /\ file' = f
    /\ hosts' = get_hosts_from_inventory(f)
    /\ io' = io \o (IF f.exists THEN <<Ev("open")>>
                    ELSE <<Ev("open"), Ev("print_not_found")>>)
                \o <<Ev("print_checking")>>
    /\ pc' = "probe"
    /\ UNCHANGED <<entry, inventory, arg, failed, rcs, cont, confirm, stdin,
                   cmd, result, auditLog, attempts, prev>>

\* if failed: the warning and the failed hosts are printed and the
\* "Continue anyway?" prompt is shown.
PB_CheckFailed ==
    /\ pc = "check_failed"
    /\ entry = "playbook"
    /\ IF failed # <<>>
       THEN /\ io' = io \o <<Ev("warn_unreachable"), Ev("ask_continue")>>
            /\ pc' = "continue"
       ELSE /\ io' = io
            /\ pc' = "check_prod"
    /\ UNCHANGED <<entry, inventory, arg, file, hosts, failed, rcs, cont,
                   confirm, stdin, cmd, result, auditLog, attempts, prev>>

\* The operator's line a is read; the run returns unless it is "y".
PB_Continue(a) ==
    /\ pc = "continue"
    /\ entry = "playbook"
    /\ stdin' = Append(stdin, Typed("continue", a))
    /\ cont' = PB_read_cont(a)
    /\ IF PB_cont_abort(cont')
       THEN /\ io' = Append(io, Ev("abort_unreachable"))
            /\ pc' = "menu"
       ELSE /\ io' = io
            /\ pc' = "check_prod"
    /\ UNCHANGED <<entry, inventory, arg, file, hosts, failed, rcs, confirm,
                   cmd, result, auditLog, attempts, prev>>

\* if "prod" in inventory.lower(): the "Type 'PROD'" prompt is shown.
PB_CheckProd ==
    /\ pc = "check_prod"
    /\ entry = "playbook"
    /\ IF PB_is_prod(inventory)
       THEN /\ io' = Append(io, Ev("ask_prod"))
            /\ pc' = "confirm"
       ELSE /\ io' = io
            /\ pc' = "dispatch"
    /\ UNCHANGED <<entry, inventory, arg, file, hosts, failed, rcs, cont,
                   confirm, stdin, cmd, result, auditLog, attempts, prev>>

\* The operator's line a is read; the run returns unless it is "PROD".
PB_Confirm(a) ==
    /\ pc = "confirm"
    /\ entry = "playbook"
    /\ stdin' = Append(stdin, Typed("prod", a))
    /\ confirm' = a
    /\ IF PB_confirm_abort(confirm')
       THEN /\ io' = Append(io, Ev("abort_prod"))
            /\ pc' = "menu"
       ELSE /\ io' = io
            /\ pc' = "dispatch"
    /\ UNCHANGED <<entry, inventory, arg, file, hosts, failed, rcs, cont,
                   cmd, result, auditLog, attempts, prev>>

\* subprocess.run(cmd): the function returns when the command has exited;
\* an executable that cannot be spawned raises, and nothing up to main()
\* catches it.
PB_Dispatch(res) ==
    /\ pc = "dispatch"
    /\ entry = "playbook"
    /\ cmd' = PB_cmd(inventory, arg)
    /\ result' = res
    /\ io' = Append(io, Ev("run"))
    /\ pc' = IF res = "spawn_failed" THEN "crashed" ELSE "menu"
    /\ UNCHANGED <<entry, inventory, arg, file, hosts, failed, rcs, cont,
                   confirm, stdin, auditLog, attempts, prev>>

\* ---------------------------------------------------- run_custom_command
\* Variant: the answer is stripped but not lower-cased.
CC_read_cont_no_lower(a) == strip(a)

\* cont = input(...).strip().lower()
CC_read_cont(a) == lower(strip(a))

\* Variant: only an explicit "n" aborts.
CC_cont_abort_default_yes(c) == c = <<"n">>

\* if cont != "y"
CC_cont_abort(c) == c # <<"y">>

\* if "prod" in inventory.lower()
CC_is_prod(inv) == contains(<<"p","r","o","d">>, lower(inv))

\* if confirm != "PROD"
CC_confirm_abort(c) == c # <<"P","R","O","D">>

\* cmd = ...
CC_cmd(inv, a) == [head |-> a \o <<"-i">>, inventory |-> inv, tail |-> <<>>]

\* hosts = get_hosts_from_inventory(inventory_path), and the call of
\* check_ssh_connectivity(hosts, ...).
CC_Parse(f) ==
    /\ pc = "parse"
    /\ entry = "custom"
    /\ file' = f
    /\ hosts' = get_hosts_from_inventory(f)
    /\ io' = io \o (IF f.exists THEN <<Ev("open")>>
                    ELSE <<Ev("open"), Ev("print_not_found")>>)
                \o <<Ev("print_checking")>>
    /\ pc' = "probe"
    /\ UNCHANGED <<entry, inventory, arg, failed, rcs, cont, confirm, stdin,
                   cmd, result, auditLog, attempts, prev>>

\* if failed: the warning and the failed hosts are printed and the
\* "Continue anyway?" prompt is shown.
CC_CheckFailed ==
    /\ pc = "check_failed"
    /\ entry = "custom"
    /\ IF failed # <<>>
       THEN /\ io' = io \o <<Ev("warn_unreachable"), Ev("ask_continue")>>
            /\ pc' = "continue"
       ELSE /\ io' = io
            /\ pc' = "check_prod"
    /\ UNCHANGED <<entry, inventory, arg, file, hosts, failed, rcs, cont,
                   confirm, stdin, cmd, result, auditLog, attempts, prev>>

\* Variant: the abort message is printed but the return is missing.
CC_Continue_no_return(a) ==
    /\ pc = "continue"
    /\ entry = "custom"
    /\ stdin' = Append(stdin, Typed("continue", a))
    /\ cont' = CC_read_cont(a)
    /\ io' = IF CC_cont_abort(cont')
             THEN Append(io, Ev("abort_unreachable")) ELSE io
    /\ pc' = "check_prod"
    /\ UNCHANGED <<entry, inventory, arg, file, hosts, failed, rcs, confirm,
                   cmd, result, auditLog, attempts, prev>>

\* The operator's line a is read; the run returns unless it is "y".
CC_Continue(a) ==
    /\ pc = "continue"
    /\ entry = "custom"
    /\ stdin' = Append(stdin, Typed("continue", a))
    /\ cont' = CC_read_cont(a)
    /\ IF CC_cont_abort(cont')
       THEN /\ io' = Append(io, Ev("abort_unreachable"))
            /\ pc' = "menu"
       ELSE /\ io' = io
            /\ pc' = "check_prod"
    /\ UNCHANGED <<entry, inventory, arg, file, hosts, failed, rcs, confirm,
                   cmd, result, auditLog, attempts, prev>>

\* if "prod" in inventory.lower(): the "Type 'PROD'" prompt is shown.
CC_CheckProd ==
    /\ pc = "check_prod"
    /\ entry = "custom"
    /\ IF CC_is_prod(inventory)
       THEN /\ io' = Append(io, Ev("ask_prod"))
            /\ pc' = "confirm"
       ELSE /\ io' = io
            /\ pc' = "dispatch"
    /\ UNCHANGED <<entry, inventory, arg, file, hosts, failed, rcs, cont,
                   confirm, stdin, cmd, result, auditLog, attempts, prev>>

\* The operator's line a is read; the run returns unless it is "PROD".
CC_Confirm(a) ==
    /\ pc = "confirm"
    /\ entry = "custom"
    /\ stdin' = Append(stdin, Typed("prod", a))
    /\ confirm' = a
    /\ IF CC_confirm_abort(confirm')
       THEN /\ io' = Append(io, Ev("abort_prod"))
            /\ pc' = "menu"
       ELSE /\ io' = io
            /\ pc' = "dispatch"
    /\ UNCHANGED <<entry, inventory, arg, file, hosts, failed, rcs, cont,
                   cmd, result, auditLog, attempts, prev>>

\* subprocess.run(cmd): the function returns when the command has exited;
\* an executable that cannot be spawned raises, and nothing up to main()
\* catches it.
CC_Dispatch(res) ==
    /\ pc = "dispatch"
    /\ entry = "custom"
    /\ cmd' = CC_cmd(inventory, arg)
    /\ result' = res
    /\ io' = Append(io, Ev("run"))
    /\ pc' = IF res = "spawn_failed" THEN "crashed" ELSE "menu"
    /\ UNCHANGED <<entry, inventory, arg, file, hosts, failed, rcs, cont,
                   confirm, stdin, auditLog, attempts, prev>>

\* ------------------------------------------------------- specifications
\* A session of main(). The environment supplies the file at the inventory
\* path, each ssh return code, each line typed and the command's fate.
Next ==
    \/ \E e \in Entries, inv \in Inventories : MainMenu(e, inv)
    \/ MainExit
    \/ \E f \in SampleFiles : PB_Parse(f) \/ CC_Parse(f)
    \/ \E rc \in ReturnCodes : check_ssh_connectivity_probe(rc)
    \/ check_ssh_connectivity_return
    \/ PB_CheckFailed
    \/ CC_CheckFailed
    \/ \E a \in Answers : PB_Continue(a) \/ CC_Continue(a)
    \/ PB_CheckProd
    \/ CC_CheckProd
    \/ \E a \in Answers : PB_Confirm(a) \/ CC_Confirm(a)
    \/ \E res \in DispatchResults : PB_Dispatch(res) \/ CC_Dispatch(res)

Spec == Init /\ [][Next]_vars

\* A run at its first line, as main() starts it.
RunStarted(e, inv) ==
    /\ pc = "parse"
    /\ entry = e
    /\ inventory = inv
    /\ arg = IF e = "playbook" THEN PlaybookArg ELSE CommandArg
    /\ FreshRun
    /\ auditLog = <<>>
    /\ attempts = 1
    /\ prev = NoPrev

\* The parser on every file text up to MaxChars characters, and on a
\* missing file, as either entry point calls it.
InitParse == \E e \in Entries : RunStarted(e, <<"d","e","v">>)
NextParse ==
    \/ PB_Parse(NoFile)
    \/ CC_Parse(NoFile)
    \/ /\ pc = "parse"
       /\ \E n \in 0..MaxChars : \E t \in [1..n -> FileChars] :
              PB_Parse(FileOf(t)) \/ CC_Parse(FileOf(t))
SpecParse == InitParse /\ [][NextParse]_vars

\* The risk test on every inventory name up to MaxNameLen characters: a run
\* of either entry point that found an empty inventory file, at its
\* "prod" test.
InitRisk ==
    /\ pc = "check_prod"
    /\ entry \in Entries
    /\ \E n \in 1..MaxNameLen : inventory \in [1..n -> NameChars]
    /\ arg = IF entry = "playbook" THEN PlaybookArg ELSE CommandArg
    /\ file = FileOf(<<>>)
    /\ hosts = <<>>
    /\ failed = <<>>
    /\ rcs = <<>>
    /\ cont = <<>>
    /\ confirm = <<>>
    /\ stdin = <<>>
    /\ io = <<Ev("open"), Ev("print_checking")>>
    /\ cmd = NoCmd
    /\ result = "none"
    /\ auditLog = <<>>
    /\ attempts = 1
    /\ prev = NoPrev
NextRisk == PB_CheckProd \/ CC_CheckProd
SpecRisk == InitRisk /\ [][NextRisk]_vars

\* A run of one entry point, then a run of the other one with the same
\* inventory in which the environment repeats itself: the same file, the
\* same ssh return codes, the same lines typed, the same fate of the command.
Replay ==
    /\ pc \in {"menu", "crashed"}
    /\ attempts = 1
    /\ ~prev.set
    /\ prev' = [set |-> TRUE, entry |-> entry, io |-> io, cmd |-> cmd,
                file |-> file, rcs |-> rcs, stdin |-> stdin,
                result |-> result]
    /\ pc' = "parse"
    /\ entry' = IF entry = "playbook" THEN "custom" ELSE "playbook"
    /\ arg' = IF entry' = "playbook" THEN PlaybookArg ELSE CommandArg
    /\ file' = NoFile
    /\ hosts' = <<>>
    /\ failed' = <<>>
    /\ rcs' = <<>>
    /\ cont' = <<>>
    /\ confirm' = <<>>
    /\ stdin' = <<>>
    /\ io' = <<>>
    /\ cmd' = NoCmd
    /\ result' = "none"
    /\ attempts' = attempts + 1
    /\ UNCHANGED <<inventory, auditLog>>

SameFile(f) == prev.set => f = prev.file
SameReturnCode(rc) ==
    (prev.set /\ Len(rcs) < Len(prev.rcs)) => rc = prev.rcs[Len(rcs) + 1]
SameLine(a) ==
    (prev.set /\ Len(stdin) < Len(prev.stdin)) =>
        a = prev.stdin[Len(stdin) + 1].line
SameResult(res) == (prev.set /\ prev.result # "none") => res = prev.result

NextReplay ==
    \/ attempts = 0 /\ \E e \in Entries, inv \in Inventories : MainMenu(e, inv)
    \/ Replay
    \/ \E f \in SampleFiles : SameFile(f) /\ (PB_Parse(f) \/ CC_Parse(f))
    \/ \E rc \in ReturnCodes :
           SameReturnCode(rc) /\ check_ssh_connectivity_probe(rc)
    \/ check_ssh_connectivity_return
    \/ PB_CheckFailed
    \/ CC_CheckFailed
    \/ \E a \in Answers : SameLine(a) /\ (PB_Continue(a) \/ CC_Continue(a))
    \/ PB_CheckProd
    \/ CC_CheckProd
    \/ \E a \in Answers : SameLine(a) /\ (PB_Confirm(a) \/ CC_Confirm(a))
    \/ \E res \in DispatchResults :
           SameResult(res) /\ (PB_Dispatch(res) \/ CC_Dispatch(res))

SpecReplay == Init /\ [][NextReplay]_vars

\* ------------------------------------------- what the claims speak about
\* Event name happened in this run.
Happened(name) == \E i \in 1..Len(io) : io[i].ev = name
Count(name) == Cardinality({i \in 1..Len(io) : io[i].ev = name})

\* The automation command was invoked in this run.
Dispatched == Happened("run")

\* The run has returned to main(), or has ended the process.
RunOver == pc \in {"menu", "exited", "crashed"} /\ io # <<>>

\* The lines typed at a prompt in this run.
AnswersTo(prompt) ==
    {stdin[k].line : k \in {j \in 1..Len(stdin) : stdin[j].prompt = prompt}}

\* The confirmation token of the risk checkpoint.
Token == <<"P","R","O","D">>

\* An affirmative answer to the yes/no prompt "(y/N)": the letter y in
\* either case, whitespace around it allowed.
Affirmative(a) ==
    \E i \in 1..Len(a) :
        /\ a[i] \in {"y", "Y"}
        /\ \A j \in 1..Len(a) : j # i => IsSpace(a[j])

\* The keywords of a production-like inventory, and the letter-by-letter
\* case-insensitive occurrence of one of them in a name.
Keywords == {<<"p","r","o","d">>, <<"p","r","o","d","u","c","t","i","o","n">>}
UpperOf(c) ==
    CASE c = "p" -> "P" [] c = "r" -> "R" [] c = "o" -> "O" [] c = "d" -> "D"
      [] c = "u" -> "U" [] c = "c" -> "C" [] c = "t" -> "T" [] c = "i" -> "I"
      [] c = "n" -> "N" [] OTHER -> c
SameLetter(c, k) == c = k \/ c = UpperOf(k)
Elevated(name) ==
    \E kw \in Keywords :
        \E i \in 1..(Len(name) - Len(kw) + 1) :
            \A j \in 1..Len(kw) : SameLetter(name[i + j - 1], kw[j])

\* No host failed its probe: every host was probed and every ssh returned 0.
AllReachable ==
    /\ Len(rcs) = Len(hosts)
    /\ \A i \in 1..Len(rcs) : rcs[i] = 0
SomeProbeFailed == \E i \in 1..Len(rcs) : rcs[i] # 0

ReachabilityGatePassed ==
    AllReachable \/ \E a \in AnswersTo("continue") : Affirmative(a)
RiskGatePassed ==
    ~Elevated(inventory) \/ Token \in AnswersTo("prod")

\* C1: the automation command is invoked only after both checkpoints have
\* passed in the same run: no host failed its probe or the operator answered
\* affirmatively, and the inventory is not production-like or the operator
\* typed the exact token.
C1_DispatchOnlyAfterBothGates ==
    (Dispatched \/ pc = "dispatch") =>
        ReachabilityGatePassed /\ RiskGatePassed

\* A dispatch that went through both prompts.
C1_Witness ==
    /\ Dispatched
    /\ SomeProbeFailed
    /\ Elevated(inventory)
    /\ Happened("ask_continue")
    /\ Happened("ask_prod")

\* C2: when a host failed its probe and the answer to "Continue anyway?" is
\* not affirmative (empty, or anything else), the run never reaches the risk
\* checkpoint or the dispatch.
C2_NonAffirmativeNeverDispatches ==
    (SomeProbeFailed /\ \E a \in AnswersTo("continue") : ~Affirmative(a)) =>
        /\ ~Dispatched
        /\ ~Happened("ask_prod")
        /\ pc \in {"menu", "exited"}
        /\ cmd = NoCmd

\* The default: a host failed, the operator just pressed Enter, the run is over.
C2_Witness ==
    /\ SomeProbeFailed
    /\ AnswersTo("continue") = {<<>>}
    /\ pc = "menu"
    /\ ~Dispatched

\* C3: for a production-like inventory the risk checkpoint passes only on
\* the exact token "PROD"; any other line, the near-matches included, ends
\* the run without dispatch, and the prompt is shown at most once per run.
C3_ExactTokenOrAbort ==
    Elevated(inventory) =>
        /\ Count("ask_prod") <= 1
        /\ Cardinality({k \in 1..Len(stdin) : stdin[k].prompt = "prod"}) <= 1
        /\ (Dispatched \/ pc = "dispatch") => AnswersTo("prod") = {Token}
        /\ (\E a \in AnswersTo("prod") : a # Token) =>
               /\ ~Dispatched
               /\ cmd = NoCmd
               /\ pc \in {"menu", "exited"}
               /\ io[Len(io)].ev = "abort_prod"

\* The near-match "PROD " (trailing space) was typed and the run is over.
C3_Witness ==
    /\ Elevated(inventory)
    /\ AnswersTo("prod") = {<<"P","R","O","D"," ">>}
    /\ pc = "menu"
    /\ ~Dispatched

\* The hosts among the first n whose probe did not return 0, in order.
RECURSIVE FailedAmong(_, _, _)
FailedAmong(hs, rs, n) ==
    IF n = 0 THEN <<>>
    ELSE FailedAmong(hs, rs, n - 1)
             \o (IF rs[n] # 0 THEN <<hs[n]>> ELSE <<>>)

\* The targets of the ssh probes of this run, in order.
RECURSIVE ProbedHosts(_)
ProbedHosts(evs) ==
    IF evs = <<>> THEN <<>>
    ELSE (IF Head(evs).ev = "ssh" THEN <<Head(evs).host>> ELSE <<>>)
             \o ProbedHosts(Tail(evs))

\* Probing is over: check_ssh_connectivity has returned.
ProbingOver == Happened("print_checking") /\ pc # "probe"

Rank(name) ==
    CASE name = "open" -> 1
      [] name = "print_not_found" -> 2
      [] name = "print_checking" -> 3
      [] name = "ssh" -> 4
      [] name = "warn_unreachable" -> 5
      [] name = "ask_continue" -> 6
      [] name = "abort_unreachable" -> 7
      [] name = "ask_prod" -> 8
      [] name = "abort_prod" -> 9
      [] name = "run" -> 10

\* C9: the steps of a run come in the order parse, probe all hosts,
\* reachability gate, risk gate, dispatch; the reachability prompt comes
\* after all probes, the risk prompt after a passed reachability gate, and a
\* rejection is the last thing a run does.
C9_FixedOrderAndHalt ==
    /\ \A i, j \in 1..Len(io) :
           i < j => /\ Rank(io[i].ev) <= Rank(io[j].ev)
                    /\ io[i].ev = io[j].ev => io[i].ev = "ssh"
    /\ io # <<>> => io[1].ev = "open"
    /\ Happened("ask_continue") => Len(rcs) = Len(hosts) /\ Count("ssh") = Len(hosts)
    /\ (Happened("ask_prod") \/ pc \in {"check_prod", "confirm"}) =>
           ReachabilityGatePassed /\ ProbingOver
    /\ Dispatched => RunOver
    /\ Happened("abort_unreachable") =>
           /\ io[Len(io)].ev = "abort_unreachable"
           /\ pc \in {"menu", "exited"}
           /\ AnswersTo("prod") = {}
           /\ cmd = NoCmd
    /\ Happened("abort_prod") =>
           /\ io[Len(io)].ev = "abort_prod"
           /\ pc \in {"menu", "exited"}
           /\ cmd = NoCmd

\* A run that went through every step: probes, both prompts, the dispatch.
C9_Witness ==
    /\ Count("ssh") = 2
    /\ Happened("ask_continue")
    /\ Happened("ask_prod")
    /\ io[Len(io)].ev = "run"

\* Another run that was rejected at the reachability gate.
C9_WitnessRejected == Happened("abort_unreachable") /\ Elevated(inventory)

\* C4: every call of an entry point that has ended, in a dispatch, an abort
\* at a gate or a spawn failure, has appended exactly one record to the
\* audit log.
C4_OneAuditRecordPerAttempt ==
    pc \in {"menu", "exited", "crashed"} => Len(auditLog) = attempts

\* C8: a missing inventory file is signalled to the caller: what the caller
\* gets back differs from what it gets for an existing file without hosts.
C8_SourceNotFoundDistinguishable ==
    (Happened("print_checking") /\ ~file.exists) =>
        \A f \in SampleFiles :
            f.exists => get_hosts_from_inventory(f) # hosts

\* The entries an inventory text is to contribute, read off the text in one
\* pass over its characters. At the start of a line leading whitespace is
\* passed over; a "#" or "[" there makes the rest of the line count for
\* nothing; any other visible character starts the line's entry, which runs
\* to the next whitespace, and the rest of the line counts for nothing.
RECURSIVE Scan(_, _, _, _, _)
Scan(text, i, mode, cur, acc) ==
    LET out == IF mode = "token" THEN Append(acc, cur) ELSE acc
    IN  IF i > Len(text) THEN out
        ELSE IF text[i] = "\n" THEN Scan(text, i + 1, "start", <<>>, out)
        ELSE IF mode = "start"
             THEN IF IsSpace(text[i])
                  THEN Scan(text, i + 1, "start", <<>>, acc)
                  ELSE IF text[i] \in {"#", "["}
                       THEN Scan(text, i + 1, "skip", <<>>, acc)
                       ELSE Scan(text, i + 1, "token", <<text[i]>>, acc)
        ELSE IF mode = "token"
             THEN IF IsSpace(text[i])
                  THEN Scan(text, i + 1, "skip", <<>>, out)
                  ELSE Scan(text, i + 1, "token", Append(cur, text[i]), acc)
        ELSE Scan(text, i + 1, "skip", <<>>, acc)

ExpectedHosts(text) == Scan(text, 1, "start", <<>>, <<>>)

\* C7: the hosts returned for an inventory text have no entry from a blank
\* line, a "#" line or a "[" line, and one entry, the first
\* whitespace-delimited token, for every other line, in file order with
\* duplicates kept.
C7_ParserHosts ==
    (Happened("print_checking") /\ file.exists) =>
        hosts = ExpectedHosts(file.text)

\* A comment line, then the same host on two lines, the first one indented.
C7_Witness ==
    /\ pc = "probe"
    /\ file = FileOf(<<"#", "\n", " ", "b", "\n", "b">>)
    /\ hosts = << <<"b">>, <<"b">> >>

\* A name in lower-case and in upper-case letters: every name that differs
\* from it in letter case only has the same two.
LowerCased(name) == [i \in 1..Len(name) |-> LowerChar(name[i])]
UpperCased(name) == [i \in 1..Len(name) |-> UpperOf(LowerChar(name[i]))]

\* The risk test of the running entry point, on any name.
is_prod_of(e, name) ==
    IF e = "playbook" THEN PB_is_prod(name) ELSE CC_is_prod(name)

\* C6: the risk level depends on the inventory name only and not on its
\* letter case: the risk prompt is shown exactly for the names that hold a
\* keyword in any letter case, and a name is classified as its lower-case
\* and its upper-case form are, so that names that differ in case only are
\* classified the same.
C6_RiskCaseInsensitive ==
    pc \in {"confirm", "dispatch"} =>
        /\ (pc = "confirm") <=> Elevated(inventory)
        /\ (pc = "confirm") <=> Happened("ask_prod")
        /\ \A v \in {LowerCased(inventory), UpperCased(inventory)} :
               is_prod_of(entry, v) <=> (pc = "confirm")

\* A mixed-case keyword inside a longer name is classified ELEVATED.
C6_Witness ==
    /\ pc = "confirm"
    /\ inventory = <<"-", "P", "r", "O", "d">>

\* A name without keyword is classified NORMAL.
C6_WitnessNormal ==
    /\ pc = "dispatch"
    /\ inventory = <<"P", "R", "O", "-", "D">>

\* s is an initial part of t.
IsPrefix(s, t) == Len(s) <= Len(t) /\ s = SubSeq(t, 1, Len(s))

\* C10: with the same inventory, the same probe results and the same lines
\* typed, run_ansible_playbook and run_custom_command show the same prompts
\* in the same order and end the same way, in a dispatch or at the same
\* gate; only the command differs.
C10_EntryPointsAgree ==
    prev.set =>
        /\ entry # prev.entry
        /\ IsPrefix(io, prev.io)
        /\ IsPrefix(stdin, prev.stdin)
        /\ pc \in {"menu", "crashed"} =>
               /\ io = prev.io
               /\ stdin = prev.stdin
               /\ result = prev.result
               /\ (cmd = NoCmd) <=> (prev.cmd = NoCmd)
               /\ cmd.inventory = prev.cmd.inventory

\* Both entry points went through both prompts and dispatched.
C10_Witness ==
    /\ prev.set
    /\ pc = "menu"
    /\ Dispatched
    /\ Happened("ask_continue")
    /\ Happened("ask_prod")
    /\ cmd # prev.cmd

====
